---------------------------- MODULE Spec2Model ----------------------------
(***************************************************************************)
(* The sequenced writer of the schema registry                              *)
(* (src/v/pandaproxy/schema_registry/seq_writer.cc).                        *)
(*                                                                          *)
(* Every node runs one seq_writer on its shard 0.  The writers share the    *)
(* internal topic (log).  A request handler (a process of Procs) runs one   *)
(* operation at a time; every co_await of the source is a step boundary.    *)
(* The store, the applier (consume_to_store) and sequenced_write are not    *)
(* part of the translated file: they are modelled from the design document. *)
(***************************************************************************)
EXTENDS Integers, Sequences, FiniteSets, TLC

(***************************************************************************)
(* Bounds of the model.                                                     *)
(***************************************************************************)
\* Records produced in a behaviour, on top of the history found at boot.
MaxLog == 3
\* Operations the request handlers start in a behaviour.
MaxOps == 3

(***************************************************************************)
(* Program constants.                                                       *)
(***************************************************************************)
\* Mutation: one more attempt than the budget allows.
max_retries_one_more == 5 + 1

\* retry budget of sequenced_write (design default)
max_retries == 5

Nodes == {1, 2}
Procs == {"a1", "a2", "b1"}
NodeOf(p) == IF p = "b1" THEN 2 ELSE 1

Subjects == {"s1", "s2"}
DefaultCompat == "BACKWARD"
Unset == "unset"
Global == "global"
NoSubject == "none"
NoVersion == 0

(***************************************************************************)
(* Records of the internal topic: a typed key and a value or a tombstone.   *)
(***************************************************************************)
Tombstone == [kind |-> "tombstone"]

schema_key(seq, node, sub, version) ==
    [type |-> "schema", seq |-> seq, node |-> node, sub |-> sub,
     version |-> version]

config_key(seq, node, sub) ==
    [type |-> "config", seq |-> seq, node |-> node, sub |-> sub,
     version |-> NoVersion]

delete_subject_key(seq, node, sub) ==
    [type |-> "delete_subject", seq |-> seq, node |-> node, sub |-> sub,
     version |-> NoVersion]

schema_value(sub, version, type, id, def, deleted) ==
    [kind |-> "schema_value", sub |-> sub, version |-> version,
     type |-> type, id |-> id, def |-> def, deleted |-> deleted]

config_value(compat) == [kind |-> "config_value", compat |-> compat]

delete_subject_value(sub, version) ==
    [kind |-> "delete_subject_value", sub |-> sub, version |-> version]

seq_marker(key) ==
    [seq |-> key.seq, node |-> key.node, version |-> key.version,
     key_type |-> key.type]

\* The offset of the i-th record of the topic (offsets start at 0).
OffsetOf(i) == i - 1
RecordAt(l, o) == l[o + 1]

(***************************************************************************)
(* Sequence helpers.                                                        *)
(***************************************************************************)
RECURSIVE SetMax(_)
SetMax(S) ==
    IF S = {} THEN 0
    ELSE LET x == CHOOSE y \in S : TRUE
             m == SetMax(S \ {x})
         IN IF x > m THEN x ELSE m

\* Insert entry e into the version list vs, kept sorted by version, in front
\* of the first entry whose version is not smaller (std::lower_bound).
InsertSorted(vs, e) ==
    LET lower == SelectSeq(vs, LAMBDA x : x.version < e.version)
        upper == SelectSeq(vs, LAMBDA x : x.version >= e.version)
    IN lower \o <<e>> \o upper

(***************************************************************************)
(* The store: the in-memory projection of the topic.                        *)
(***************************************************************************)
EmptySubject == [versions |-> <<>>, written_at |-> <<>>, deleted |-> FALSE]

EmptyStore ==
    [schemas  |-> {},
     subjects |-> [s \in Subjects |-> EmptySubject],
     compat   |-> [t \in Subjects \cup {Global} |->
                     IF t = Global THEN DefaultCompat ELSE Unset]]

Ok(v) == [ok |-> TRUE, val |-> v]
Fail(e) == [ok |-> FALSE, err |-> e]

HasVersion(st, sub, version) ==
    \E i \in 1..Len(st.subjects[sub].versions) :
        st.subjects[sub].versions[i].version = version

VersionEntry(st, sub, version) ==
    LET vs == st.subjects[sub].versions
    IN vs[CHOOSE i \in 1..Len(vs) : vs[i].version = version]

SchemaOf(st, id) == CHOOSE s \in st.schemas : s.id = id

\* Mutation: a schema that only soft-deleted versions refer to counts as
\* unknown and gets the next free ID.
project_ids_of_live_versions(st, sub, def, type) ==
    LET live == {s \in st.schemas :
                   \E u \in Subjects :
                      \E i \in 1..Len(st.subjects[u].versions) :
                         /\ st.subjects[u].versions[i].id = s.id
                         /\ ~st.subjects[u].versions[i].deleted}
        known == {s \in live : s.def = def /\ s.type = type}
        id == IF known # {} THEN (CHOOSE s \in known : TRUE).id
              ELSE SetMax({s.id : s \in st.schemas}) + 1
        vs == st.subjects[sub].versions
        have == {i \in 1..Len(vs) : vs[i].id = id}
        version == IF have # {} THEN vs[CHOOSE i \in have : TRUE].version
                   ELSE IF vs = <<>> THEN 1
                   ELSE vs[Len(vs)].version + 1
    IN [id |-> id, version |-> version, inserted |-> have = {}]

\* project_ids: the ID of (def, type) if the store knows it, else the next
\* free ID; the subject's version holding that ID, else the next version.
project_ids(st, sub, def, type) ==
    LET known == {s \in st.schemas : s.def = def /\ s.type = type}
        id == IF known # {} THEN (CHOOSE s \in known : TRUE).id
              ELSE SetMax({s.id : s \in st.schemas}) + 1
        vs == st.subjects[sub].versions
        have == {i \in 1..Len(vs) : vs[i].id = id}
        version == IF have # {} THEN vs[CHOOSE i \in have : TRUE].version
                   ELSE IF vs = <<>> THEN 1
                   ELSE vs[Len(vs)].version + 1
    IN [id |-> id, version |-> version, inserted |-> have = {}]

get_subject_schema(st, sub, version) ==
    IF ~HasVersion(st, sub, version) THEN Fail("not_found")
    ELSE LET e == VersionEntry(st, sub, version)
             s == SchemaOf(st, e.id)
         IN Ok([id |-> e.id, type |-> s.type, definition |-> s.def,
                deleted |-> e.deleted])

get_versions(st, sub) ==
    LET vs == st.subjects[sub].versions
    IN IF vs = <<>> THEN Fail("not_found")
       ELSE Ok([i \in 1..Len(vs) |-> vs[i].version])

is_subject_deleted(st, sub) == st.subjects[sub].deleted

get_compatibility(st, sub) ==
    IF sub = NoSubject THEN st.compat[Global]
    ELSE IF st.compat[sub] # Unset THEN st.compat[sub]
    ELSE st.compat[Global]

\* Sequence markers of a whole subject; the subject has to be soft-deleted.
get_subject_written_at(st, sub) ==
    IF st.subjects[sub].written_at = <<>> THEN Fail("not_found")
    ELSE IF ~st.subjects[sub].deleted THEN Fail("not_found")
    ELSE Ok(st.subjects[sub].written_at)

\* Sequence markers of one version; the version has to be soft-deleted.
get_subject_version_written_at(st, sub, version) ==
    IF ~HasVersion(st, sub, version) THEN Fail("not_found")
    ELSE IF ~VersionEntry(st, sub, version).deleted THEN Fail("not_found")
    ELSE Ok(SelectSeq(st.subjects[sub].written_at,
                      LAMBDA m : m.key_type = "schema" /\ m.version = version))

(***************************************************************************)
(* Store mutations used by the applier.                                     *)
(***************************************************************************)
upsert_schema(schemas, id, def, type) ==
    {s \in schemas : s.id # id} \cup {[id |-> id, def |-> def, type |-> type]}

upsert_version(vs, e) ==
    IF \E i \in 1..Len(vs) : vs[i].version = e.version
    THEN [i \in 1..Len(vs) |-> IF vs[i].version = e.version THEN e ELSE vs[i]]
    ELSE InsertSorted(vs, e)

RecordMarker(subj, key) ==
    [subj EXCEPT !.written_at = Append(@, seq_marker(key))]

ForgetMarker(subj, key) ==
    [subj EXCEPT !.written_at = SelectSeq(@, LAMBDA m : m # seq_marker(key))]

(***************************************************************************)
(* The applier (consume_to_store): (offset, key, value or tombstone) to a   *)
(* store mutation.  A value whose key.seq differs from the offset it is     *)
(* found at lost a collision and is disregarded.                            *)
(***************************************************************************)
apply_schema(st, offset, key, val) ==
    IF val = Tombstone
    THEN [st EXCEPT !.subjects[key.sub] =
            ForgetMarker(
              [@ EXCEPT !.versions =
                  SelectSeq(@, LAMBDA e : e.version # key.version)], key)]
    ELSE IF key.seq # offset THEN st
    ELSE [st EXCEPT
            !.schemas = upsert_schema(@, val.id, val.def, val.type),
            !.subjects[key.sub] =
               RecordMarker(
                 [@ EXCEPT !.versions =
                     upsert_version(@, [version |-> val.version,
                                        id |-> val.id,
                                        deleted |-> val.deleted])], key)]

apply_config(st, offset, key, val) ==
    IF val = Tombstone
    THEN IF key.sub = NoSubject
         THEN [st EXCEPT !.compat[Global] = DefaultCompat]
         ELSE [st EXCEPT !.compat[key.sub] = Unset,
                         !.subjects[key.sub] = ForgetMarker(@, key)]
    ELSE IF key.seq # offset THEN st
    ELSE IF key.sub = NoSubject
         THEN [st EXCEPT !.compat[Global] = val.compat]
         ELSE [st EXCEPT !.compat[key.sub] = val.compat,
                         !.subjects[key.sub] = RecordMarker(@, key)]

apply_delete_subject(st, offset, key, val) ==
    IF val = Tombstone
    THEN [st EXCEPT !.subjects[key.sub] =
            ForgetMarker([@ EXCEPT !.deleted = FALSE], key)]
    ELSE IF key.seq # offset THEN st
    ELSE [st EXCEPT !.subjects[key.sub] =
            RecordMarker(
              [@ EXCEPT
                 !.deleted = TRUE,
                 !.versions = [i \in 1..Len(@) |->
                     IF @[i].version <= val.version
                     THEN [@[i] EXCEPT !.deleted = TRUE] ELSE @[i]]], key)]

apply(st, offset, key, val) ==
    CASE key.type = "schema"         -> apply_schema(st, offset, key, val)
      [] key.type = "config"         -> apply_config(st, offset, key, val)
      [] key.type = "delete_subject" -> apply_delete_subject(st, offset, key, val)

\* The store obtained by replaying the topic from offset 0 through offset o.
RECURSIVE Replay(_, _)
Replay(l, o) ==
    IF o < 0 THEN EmptyStore
    ELSE apply(Replay(l, o - 1), o, RecordAt(l, o).key, RecordAt(l, o).val)

(***************************************************************************)
(* Operations a request handler may run, and their results.                 *)
(***************************************************************************)
Op(name, sub, def, type, version, compat, offset) ==
    [name |-> name, sub |-> sub, def |-> def, type |-> type,
     version |-> version, compat |-> compat, offset |-> offset]

write_subject_version(sub, def, type) ==
    Op("write_subject_version", sub, def, type, NoVersion, Unset, -1)
write_config(sub, compat) ==
    Op("write_config", sub, "-", "-", NoVersion, compat, -1)
delete_subject_version(sub, version) ==
    Op("delete_subject_version", sub, "-", "-", version, Unset, -1)
delete_subject_impermanent(sub) ==
    Op("delete_subject_impermanent", sub, "-", "-", NoVersion, Unset, -1)
delete_subject_permanent(sub, version) ==
    Op("delete_subject_permanent", sub, "-", "-", version, Unset, -1)
read_sync == Op("read_sync", NoSubject, "-", "-", NoVersion, Unset, -1)
advance_offset(offset) ==
    Op("advance_offset", NoSubject, "-", "-", NoVersion, Unset, offset)
NoOp == Op("none", NoSubject, "-", "-", NoVersion, Unset, -1)

SequencedOps ==
    {"write_subject_version", "write_config", "delete_subject_version",
     "delete_subject_impermanent"}

\* A returned value: a schema ID, a flag or a list of versions.
Value(id, flag, versions) == [id |-> id, flag |-> flag, versions |-> versions]
IdValue(id) == Value(id, FALSE, <<>>)
FlagValue(b) == Value(0, b, <<>>)
VersionsValue(vs) == Value(0, FALSE, vs)
NoValue == Value(0, FALSE, <<>>)

NoKey == schema_key(-1, 0, NoSubject, NoVersion)

\* What the op-specific closure decides before it produces: return a value
\* without writing, fail, or produce (key, val) and return value on success.
Return(v) ==
    [action |-> "return", err |-> "none", key |-> NoKey, val |-> Tombstone,
     value |-> v]
Throw(e) ==
    [action |-> "throw", err |-> e, key |-> NoKey, val |-> Tombstone,
     value |-> NoValue]
Produce(key, val, v) ==
    [action |-> "produce", err |-> "none", key |-> key, val |-> val,
     value |-> v]

\* Mutation: the closure produces a record even when the projection inserted
\* nothing.
do_write_subject_version_always_produces(st, o, write_at, my_node_id) ==
    LET projected == project_ids(st, o.sub, o.def, o.type)
    IN Produce(schema_key(write_at, my_node_id, o.sub, projected.version),
               schema_value(o.sub, projected.version, o.type,
                            projected.id, o.def, FALSE),
               IdValue(projected.id))

\* Mutation: the closure writes the version before the projected one.
do_write_subject_version_off_by_one(st, o, write_at, my_node_id) ==
    LET projected == project_ids(st, o.sub, o.def, o.type)
    IN IF ~projected.inserted THEN Return(IdValue(projected.id))
       ELSE Produce(schema_key(write_at, my_node_id, o.sub,
                               projected.version - 1),
                    schema_value(o.sub, projected.version - 1, o.type,
                                 projected.id, o.def, FALSE),
                    IdValue(projected.id))

do_write_subject_version(st, o, write_at, my_node_id) ==
    LET projected == project_ids(st, o.sub, o.def, o.type)
    IN IF ~projected.inserted THEN Return(IdValue(projected.id))
       ELSE Produce(schema_key(write_at, my_node_id, o.sub, projected.version),
                    schema_value(o.sub, projected.version, o.type,
                                 projected.id, o.def, FALSE),
                    IdValue(projected.id))

\* Mutation: the no-op case is not looked for.
do_write_config_always_produces(st, o, write_at, my_node_id) ==
    Produce(config_key(write_at, my_node_id, o.sub),
            config_value(o.compat), FlagValue(TRUE))

do_write_config(st, o, write_at, my_node_id) ==
    LET existing == get_compatibility(st, o.sub)
    IN IF existing = o.compat THEN Return(FlagValue(FALSE))
       ELSE Produce(config_key(write_at, my_node_id, o.sub),
                    config_value(o.compat), FlagValue(TRUE))

\* Mutation: a version that is already soft-deleted is not written again.
do_delete_subject_version_once(st, o, write_at, my_node_id) ==
    LET s_res == get_subject_schema(st, o.sub, o.version)
    IN IF ~s_res.ok THEN Throw(s_res.err)
       ELSE IF s_res.val.deleted THEN Return(FlagValue(TRUE))
       ELSE Produce(schema_key(write_at, my_node_id, o.sub, o.version),
                    schema_value(o.sub, o.version, s_res.val.type,
                                 s_res.val.id, s_res.val.definition, TRUE),
                    FlagValue(TRUE))

do_delete_subject_version(st, o, write_at, my_node_id) ==
    LET s_res == get_subject_schema(st, o.sub, o.version)
    IN IF ~s_res.ok THEN Throw(s_res.err)
       ELSE Produce(schema_key(write_at, my_node_id, o.sub, o.version),
                    schema_value(o.sub, o.version, s_res.val.type,
                                 s_res.val.id, s_res.val.definition, TRUE),
                    FlagValue(TRUE))

\* Mutation: the closure does not look at the subject's deleted flag.
do_delete_subject_impermanent_always_produces(st, o, write_at, my_node_id) ==
    LET versions == get_versions(st, o.sub)
    IN IF ~versions.ok THEN Throw(versions.err)
       ELSE Produce(delete_subject_key(write_at, my_node_id, o.sub),
                    delete_subject_value(o.sub,
                                         versions.val[Len(versions.val)]),
                    VersionsValue(versions.val))

do_delete_subject_impermanent(st, o, write_at, my_node_id) ==
    LET versions == get_versions(st, o.sub)
    IN IF ~versions.ok THEN Throw(versions.err)
       ELSE IF is_subject_deleted(st, o.sub)
       THEN Return(VersionsValue(versions.val))
       ELSE Produce(delete_subject_key(write_at, my_node_id, o.sub),
                    delete_subject_value(o.sub,
                                         versions.val[Len(versions.val)]),
                    VersionsValue(versions.val))

do_write(st, o, write_at, my_node_id) ==
    CASE o.name = "write_subject_version" ->
            do_write_subject_version(st, o, write_at, my_node_id)
      [] o.name = "write_config" ->
            do_write_config(st, o, write_at, my_node_id)
      [] o.name = "delete_subject_version" ->
            do_delete_subject_version(st, o, write_at, my_node_id)
      [] o.name = "delete_subject_impermanent" ->
            do_delete_subject_impermanent(st, o, write_at, my_node_id)

\* The responses of the log client.
NoError == "none"
ErrorCodes == {"request_timed_out"}
ProduceResponse(error_code, base_offset) ==
    [error_code |-> error_code, base_offset |-> base_offset]
ListOffsetsResponse(topics, partitions, error_code, offset) ==
    [topics |-> topics, partitions |-> partitions, error_code |-> error_code,
     offset |-> offset]

\* Mutation: the error code of the produce response is not looked at.
produce_error_unchecked(res) == FALSE

\* res.error_code != kafka::error_code::none
produce_error(res) == res.error_code # NoError

\* Mutation: the error code of the partition is not looked at.
list_offsets_error_unchecked(offsets) ==
    offsets.topics # 1 \/ offsets.partitions # 1

\* read_sync: the response must hold one topic with one partition, and the
\* partition no error.
list_offsets_error(offsets) ==
    \/ offsets.topics # 1
    \/ offsets.partitions # 1
    \/ offsets.error_code # NoError

\* Mutation: the base offset of the response is not compared with write_at.
produce_and_check_unchecked(write_at, wrote_at) == TRUE

\* produce_and_check: did the batch land where the caller expected it.
produce_and_check(write_at, wrote_at) == wrote_at = write_at

\* advance_offset_inner without its comparison: the offset is taken as it comes.
advance_offset_inner_unchecked(cur, offset) == offset

\* advance_offset_inner that never moves _loaded_offset.
advance_offset_inner_stuck(cur, offset) == cur

\* advance_offset_inner: the new _loaded_offset.
advance_offset_inner(cur, offset) == IF cur < offset THEN offset ELSE cur

\* The tombstone keys delete_subject_permanent_inner builds from the
\* sequence markers of its victim.
\* Mutation: the tombstones carry the id of node 1, not that of the marker.
TombstoneKey_of_local_node(sub, s) ==
    CASE s.key_type = "schema" -> schema_key(s.seq, 1, sub, s.version)
      [] s.key_type = "delete_subject" -> delete_subject_key(s.seq, 1, sub)
      [] s.key_type = "config" -> config_key(s.seq, 1, sub)

\* Mutation: the tombstone of a compatibility level gets the key of a
\* soft-delete.
TombstoneKey_without_config(sub, s) ==
    CASE s.key_type = "schema" -> schema_key(s.seq, s.node, sub, s.version)
      [] s.key_type = "delete_subject" -> delete_subject_key(s.seq, s.node, sub)
      [] s.key_type = "config" -> delete_subject_key(s.seq, s.node, sub)

TombstoneKey(sub, s) ==
    CASE s.key_type = "schema" -> schema_key(s.seq, s.node, sub, s.version)
      [] s.key_type = "delete_subject" -> delete_subject_key(s.seq, s.node, sub)
      [] s.key_type = "config" -> config_key(s.seq, s.node, sub)

TombstoneKeys(sub, sequences) ==
    [i \in 1..Len(sequences) |-> TombstoneKey(sub, sequences[i])]

\* Mutation: the markers are taken whether or not the store knows the victim.
Sequences_unchecked(st, o) == Ok(st.subjects[o.sub].written_at)

Sequences(st, o) ==
    IF o.version # NoVersion
    THEN get_subject_version_written_at(st, o.sub, o.version)
    ELSE get_subject_written_at(st, o.sub)

(***************************************************************************)
(* State.                                                                   *)
(***************************************************************************)
VARIABLES
    log,            \* the internal topic: the records at offsets 0, 1, ...
    store,          \* store[n]: the store of node n
    loaded_offset,  \* loaded_offset[n]: _loaded_offset of node n's writer
    write_sem,      \* write_sem[n]: free units of _write_sem (1 or 0)
    wait_for_sem,   \* wait_for_sem[n]: free units of _wait_for_sem
    pc,             \* pc[p]: where request handler p is suspended
    op,             \* op[p]: the operation p runs
    loc,            \* loc[p]: the locals of p's operation
    ret,            \* ret[p]: what p's last operation returned
    ops_left,       \* operations the request handlers may still start
    menu,           \* menu[p]: the operations p is asked to run
    log_limit,      \* no produce once the topic holds this many records
    applied         \* applied[n]: offsets node n's applier was called with

vars == <<log, store, loaded_offset, write_sem, wait_for_sem, pc, op, loc,
          ret, ops_left, menu, log_limit, applied>>

NoLoc ==
    [write_at |-> -1, retries |-> 0, key |-> NoKey, val |-> Tombstone,
     value |-> NoValue, next |-> 0, end |-> 0, keys |-> <<>>, offset |-> 0]

NoRet ==
    [status |-> "none", err |-> "none", value |-> NoValue, wrote |-> FALSE,
     at |-> -1, count |-> 0, key |-> NoKey, val |-> Tombstone]

Returned(v) ==
    [status |-> "ok", err |-> "none", value |-> v, wrote |-> FALSE,
     at |-> -1, count |-> 0, key |-> NoKey, val |-> Tombstone]

Wrote(v, at, count, key, val) ==
    [status |-> "ok", err |-> "none", value |-> v, wrote |-> TRUE,
     at |-> at, count |-> count, key |-> key, val |-> val]

Thrown(e) ==
    [status |-> "error", err |-> e, value |-> NoValue, wrote |-> FALSE,
     at |-> -1, count |-> 0, key |-> NoKey, val |-> Tombstone]

Sequenced(p) == op[p].name \in SequencedOps

InWaitFor(p) == pc[p] = "fetch"

(***************************************************************************)
(* Initial states: the topic holds a history written earlier; a node is     *)
(* fresh (just constructed: empty store, _loaded_offset = -1) or has        *)
(* replayed the history.                                                    *)
(***************************************************************************)
BootedWith(l, fresh, m, budget, room) ==
    /\ log = l
    /\ log_limit = Len(l) + room
    /\ store = [n \in Nodes |->
                  IF n \in fresh THEN EmptyStore ELSE Replay(l, Len(l) - 1)]
    /\ loaded_offset = [n \in Nodes |->
                          IF n \in fresh THEN -1 ELSE Len(l) - 1]
    /\ write_sem = [n \in Nodes |-> 1]
    /\ wait_for_sem = [n \in Nodes |-> 1]
    /\ pc = [p \in Procs |-> "idle"]
    /\ op = [p \in Procs |-> NoOp]
    /\ loc = [p \in Procs |-> NoLoc]
    /\ ret = [p \in Procs |-> NoRet]
    /\ ops_left = budget
    /\ menu = m
    /\ applied = [n \in Nodes |->
                    IF n \in fresh THEN <<>>
                    ELSE [i \in 1..Len(l) |-> OffsetOf(i)]]

\* ... with room for MaxLog more records
Booted(l, fresh, m, budget) == BootedWith(l, fresh, m, budget, MaxLog)

(***************************************************************************)
(* Starting an operation: the dispatch to shard 0.                          *)
(***************************************************************************)
Start(p) ==
    /\ pc[p] \in {"idle", "done"}
    /\ ops_left > 0
    /\ \E o \in menu[p] :
          /\ o.name = "advance_offset" => o.offset < Len(log)
          /\ op' = [op EXCEPT ![p] = o]
          /\ pc' = [pc EXCEPT ![p] =
                      CASE o.name \in SequencedOps -> "acquire"
                        [] o.name = "read_sync" -> "read_sync"
                        [] o.name = "advance_offset" -> "advance_offset"
                        [] o.name = "delete_subject_permanent" -> "perm_query"]
    /\ ops_left' = ops_left - 1
    /\ loc' = [loc EXCEPT ![p] = NoLoc]
    /\ ret' = [ret EXCEPT ![p] = NoRet]
    /\ UNCHANGED <<log, store, loaded_offset, write_sem, wait_for_sem, menu,
                   log_limit, applied>>

\* sequenced_write: with_semaphore(_write_sem, 1, ...) on shard 0.
Acquire(p) ==
    /\ pc[p] = "acquire"
    /\ write_sem[NodeOf(p)] > 0
    /\ write_sem' = [write_sem EXCEPT ![NodeOf(p)] = @ - 1]
    /\ pc' = [pc EXCEPT ![p] = "read_sync"]
    /\ UNCHANGED <<log, store, loaded_offset, wait_for_sem, op, loc, ret,
                   ops_left, menu,
                   log_limit, applied>>

(***************************************************************************)
(* wait_for has completed with _loaded_offset = loaded: read_sync returns;  *)
(* a sequenced write predicts its offset and calls its closure.             *)
(***************************************************************************)
AfterWaitFor(p, loaded) ==
    IF Sequenced(p)
    THEN /\ pc' = [pc EXCEPT ![p] = "project"]
         /\ loc' = [loc EXCEPT ![p].write_at = loaded + 1]
         /\ ret' = ret
    ELSE /\ pc' = [pc EXCEPT ![p] = "done"]
         /\ loc' = [loc EXCEPT ![p] = NoLoc]
         /\ ret' = [ret EXCEPT ![p] = Returned(NoValue)]

\* read_sync on the response offsets of list_offsets: a response that does
\* not hold one topic with one partition throws unknown_topic_or_partition, an
\* error code of the partition throws that code; else wait_for(end offset - 1)
\* on shard 0.  The units wait_for asks _wait_for_sem for are a future it never
\* waits on, and they are gone when its lambda returns: no unit is held over
\* the fetch.  A sequenced write that throws gives its write permit back.
ReadSyncChecked(p, offsets) ==
    LET n == NodeOf(p)
        offset == offsets.offset - 1
    IN IF list_offsets_error(offsets)
       THEN /\ pc' = [pc EXCEPT ![p] = "done"]
            /\ loc' = [loc EXCEPT ![p] = NoLoc]
            /\ ret' = [ret EXCEPT ![p] =
                         Thrown(IF offsets.topics # 1 \/ offsets.partitions # 1
                                THEN "unknown_topic_or_partition"
                                ELSE offsets.error_code)]
            /\ write_sem' = [write_sem EXCEPT ![n] =
                                IF Sequenced(p) THEN @ + 1 ELSE @]
       ELSE /\ IF offset > loaded_offset[n]
               THEN /\ pc' = [pc EXCEPT ![p] = "fetch"]
                    /\ loc' = [loc EXCEPT ![p].next = loaded_offset[n] + 1,
                                          ![p].end = offset + 1]
                    /\ ret' = ret
               ELSE AfterWaitFor(p, loaded_offset[n])
            /\ write_sem' = write_sem

\* list_offsets reports the end offset of the topic.
ReadSync(p) ==
    /\ pc[p] = "read_sync"
    /\ ReadSyncChecked(p, ListOffsetsResponse(1, 1, NoError, Len(log)))
    /\ UNCHANGED <<log, store, loaded_offset, wait_for_sem, op, ops_left,
                   menu, log_limit, applied>>

\* The responses of list_offsets that report no end offset: no topic, no
\* partition, or a partition with an error code.
ListOffsetsFaults ==
    {ListOffsetsResponse(0, 0, NoError, 0),
     ListOffsetsResponse(1, 0, NoError, 0)}
    \cup {ListOffsetsResponse(1, 1, ec, -1) : ec \in ErrorCodes}

ReadSyncError(p) ==
    /\ pc[p] = "read_sync"
    /\ \E offsets \in ListOffsetsFaults : ReadSyncChecked(p, offsets)
    /\ UNCHANGED <<log, store, loaded_offset, wait_for_sem, op, ops_left,
                   menu, log_limit, applied>>

\* The fetch of wait_for hands the next record of its range to the applier,
\* which applies it and calls advance_offset_inner.
Fetch(p) ==
    LET n == NodeOf(p)
        o == loc[p].next
        r == RecordAt(log, o)
        loaded == advance_offset_inner(loaded_offset[n], o)
    IN /\ pc[p] = "fetch"
       /\ store' = [store EXCEPT ![n] = apply(@, o, r.key, r.val)]
       /\ applied' = [applied EXCEPT ![n] = Append(@, o)]
       /\ loaded_offset' = [loaded_offset EXCEPT ![n] = loaded]
       /\ IF o + 1 < loc[p].end
          THEN /\ loc' = [loc EXCEPT ![p].next = o + 1]
               /\ pc' = pc
               /\ ret' = ret
          ELSE AfterWaitFor(p, loaded)
       /\ UNCHANGED <<log, write_sem, wait_for_sem, op, ops_left, menu,
                      log_limit>>

(***************************************************************************)
(* The closure of a sequenced write.                                        *)
(***************************************************************************)
\* The closure consults the store; it returns or throws without writing, or
\* builds its record and calls produce_and_check.
Project(p) ==
    LET n == NodeOf(p)
        d == do_write(store[n], op[p], loc[p].write_at, n)
    IN /\ pc[p] = "project"
       /\ Sequenced(p)
       /\ IF d.action = "produce"
          THEN /\ pc' = [pc EXCEPT ![p] = "produce"]
               /\ loc' = [loc EXCEPT ![p].key = d.key, ![p].val = d.val,
                                     ![p].value = d.value]
               /\ ret' = ret
               /\ write_sem' = write_sem
          ELSE /\ pc' = [pc EXCEPT ![p] = "done"]
               /\ loc' = [loc EXCEPT ![p] = NoLoc]
               /\ ret' = [ret EXCEPT ![p] =
                            IF d.action = "return" THEN Returned(d.value)
                            ELSE Thrown(d.err)]
               /\ write_sem' = [write_sem EXCEPT ![n] = @ + 1]
       /\ UNCHANGED <<log, store, loaded_offset, wait_for_sem, op, ops_left,
                      menu, log_limit, applied>>

\* produce_and_check on the response res of produce_record_batch: an error
\* code throws an exception that carries it; else the base offset is compared with write_at.  A miss sends
\* the write back to its catch-up, and fails it once the retry budget is
\* spent.
ProduceChecked(p, res) ==
    LET n == NodeOf(p)
    IN IF produce_error(res)
       THEN /\ pc' = [pc EXCEPT ![p] = "done"]
            /\ loc' = [loc EXCEPT ![p] = NoLoc]
            /\ ret' = [ret EXCEPT ![p] = Thrown(res.error_code)]
            /\ write_sem' = [write_sem EXCEPT ![n] = @ + 1]
       ELSE IF produce_and_check(loc[p].write_at, res.base_offset)
       THEN /\ pc' = [pc EXCEPT ![p] = "apply"]
            /\ UNCHANGED <<loc, ret, write_sem>>
       ELSE IF loc[p].retries + 1 < max_retries
       THEN /\ pc' = [pc EXCEPT ![p] = "read_sync"]
            /\ loc' = [loc EXCEPT ![p] =
                         [NoLoc EXCEPT !.retries = loc[p].retries + 1]]
            /\ UNCHANGED <<ret, write_sem>>
       ELSE /\ pc' = [pc EXCEPT ![p] = "done"]
            /\ loc' = [loc EXCEPT ![p] = NoLoc]
            /\ ret' = [ret EXCEPT ![p] = Thrown("exhausted_retries")]
            /\ write_sem' = [write_sem EXCEPT ![n] = @ + 1]

\* produce_record_batch appends the record and reports its offset.
ProduceRecord(p) ==
    /\ pc[p] = "produce"
    /\ Len(log) < log_limit
    /\ log' = Append(log, [key |-> loc[p].key, val |-> loc[p].val])
    /\ ProduceChecked(p, ProduceResponse(NoError, Len(log)))
    /\ UNCHANGED <<store, loaded_offset, wait_for_sem, op, ops_left, menu,
                   log_limit, applied>>

\* produce_record_batch fails: nothing is appended and the response carries
\* an error code.
ProduceError(p) ==
    /\ pc[p] = "produce"
    /\ \E ec \in ErrorCodes : ProduceChecked(p, ProduceResponse(ec, -1))
    /\ UNCHANGED <<log, store, loaded_offset, wait_for_sem, op, ops_left,
                   menu, log_limit, applied>>

\* applier.apply(write_at, key, value)
ApplyWrite(p) ==
    LET n == NodeOf(p)
    IN /\ pc[p] = "apply"
       /\ store' = [store EXCEPT ![n] =
                      apply(@, loc[p].write_at, loc[p].key, loc[p].val)]
       /\ applied' = [applied EXCEPT ![n] = Append(@, loc[p].write_at)]
       /\ pc' = [pc EXCEPT ![p] = "advance"]
       /\ UNCHANGED <<log, loaded_offset, write_sem, wait_for_sem, op, loc,
                      ret, ops_left, menu, log_limit>>

\* seq.advance_offset_inner(write_at); co_return: the permit is released.
AdvanceReturn(p) ==
    LET n == NodeOf(p)
    IN /\ pc[p] = "advance"
       /\ loaded_offset' = [loaded_offset EXCEPT ![n] =
                              advance_offset_inner(@, loc[p].write_at)]
       /\ ret' = [ret EXCEPT ![p] =
                    Wrote(loc[p].value, loc[p].write_at, 1, loc[p].key,
                          loc[p].val)]
       /\ write_sem' = [write_sem EXCEPT ![n] = @ + 1]
       /\ pc' = [pc EXCEPT ![p] = "done"]
       /\ loc' = [loc EXCEPT ![p] = NoLoc]
       /\ UNCHANGED <<log, store, wait_for_sem, op, ops_left, menu,
                   log_limit, applied>>

(***************************************************************************)
(* delete_subject_permanent.  The units it asks _write_sem for are a future *)
(* it never waits on, and they are gone when its lambda returns at the      *)
(* first suspension of delete_subject_permanent_inner: the permanent delete *)
(* neither waits for the write permit nor holds it.                         *)
(***************************************************************************)
\* The store yields the sequence markers of the victim; the tombstones are
\* built and handed to produce_record_batch.
PermQuery(p) ==
    LET n == NodeOf(p)
        sequences == Sequences(store[n], op[p])
        keys == TombstoneKeys(op[p].sub, sequences.val)
    IN /\ pc[p] = "perm_query"
       /\ IF sequences.ok /\ keys # <<>>
          THEN /\ pc' = [pc EXCEPT ![p] = "perm_produce"]
               /\ loc' = [loc EXCEPT ![p].keys = keys]
               /\ ret' = ret
          ELSE /\ pc' = [pc EXCEPT ![p] = "done"]
               /\ loc' = [loc EXCEPT ![p] = NoLoc]
               /\ ret' = [ret EXCEPT ![p] =
                            Thrown(IF sequences.ok THEN "assert"
                                   ELSE sequences.err)]
       /\ UNCHANGED <<log, store, loaded_offset, write_sem, wait_for_sem, op,
                      ops_left, menu,
                   log_limit, applied>>

\* The response res of produce_record_batch for the tombstones: an error
\* code is logged and thrown; else the replay starts at the base offset.
PermProduceChecked(p, res) ==
    IF produce_error(res)
    THEN /\ pc' = [pc EXCEPT ![p] = "done"]
         /\ loc' = [loc EXCEPT ![p] = NoLoc]
         /\ ret' = [ret EXCEPT ![p] = Thrown(res.error_code)]
    ELSE /\ pc' = [pc EXCEPT ![p] = "perm_apply"]
         /\ loc' = [loc EXCEPT ![p].offset = res.base_offset,
                               ![p].end = Len(loc[p].keys)]
         /\ ret' = ret

\* The tombstones land as one batch at contiguous offsets.
PermProduce(p) ==
    LET keys == loc[p].keys
    IN /\ pc[p] = "perm_produce"
       /\ Len(log) + Len(keys) <= log_limit
       /\ log' = log \o [i \in 1..Len(keys) |->
                           [key |-> keys[i], val |-> Tombstone]]
       /\ PermProduceChecked(p, ProduceResponse(NoError, Len(log)))
       /\ UNCHANGED <<store, loaded_offset, write_sem, wait_for_sem, op,
                      ops_left, menu, log_limit, applied>>

\* produce_record_batch fails for the tombstones: nothing is appended.
PermProduceError(p) ==
    /\ pc[p] = "perm_produce"
    /\ \E ec \in ErrorCodes : PermProduceChecked(p, ProduceResponse(ec, -1))
    /\ UNCHANGED <<log, store, loaded_offset, write_sem, wait_for_sem, op,
                   ops_left, menu, log_limit, applied>>

\* Replay of the persisted deletions: apply the next key at offset, call
\* advance_offset_inner(offset), offset++.
PermApply(p) ==
    LET n == NodeOf(p)
        offset == loc[p].offset
        keys == loc[p].keys
    IN /\ pc[p] = "perm_apply"
       /\ store' = [store EXCEPT ![n] = apply(@, offset, Head(keys), Tombstone)]
       /\ applied' = [applied EXCEPT ![n] = Append(@, offset)]
       /\ loaded_offset' = [loaded_offset EXCEPT ![n] =
                              advance_offset_inner(@, offset)]
       /\ IF Tail(keys) # <<>>
          THEN /\ loc' = [loc EXCEPT ![p].keys = Tail(keys),
                                     ![p].offset = offset + 1]
               /\ pc' = pc
               /\ ret' = ret
          ELSE /\ pc' = [pc EXCEPT ![p] = "done"]
               /\ loc' = [loc EXCEPT ![p] = NoLoc]
               /\ ret' = [ret EXCEPT ![p] =
                            Wrote(VersionsValue(<<>>),
                                  offset + 1 - loc[p].end, loc[p].end,
                                  NoKey, Tombstone)]
       /\ UNCHANGED <<log, write_sem, wait_for_sem, op, ops_left, menu,
                      log_limit>>

(***************************************************************************)
(* advance_offset(offset): a shard that has seen the record at offset tells *)
(* the writer on shard 0, which runs advance_offset_inner(offset).          *)
(***************************************************************************)
AdvanceOffset(p) ==
    /\ pc[p] = "advance_offset"
    /\ loaded_offset' = [loaded_offset EXCEPT ![NodeOf(p)] =
                           advance_offset_inner(@, op[p].offset)]
    /\ pc' = [pc EXCEPT ![p] = "done"]
    /\ ret' = [ret EXCEPT ![p] = Returned(NoValue)]
    /\ UNCHANGED <<log, store, write_sem, wait_for_sem, op, loc, ops_left,
                   menu, log_limit, applied>>

(***************************************************************************)
(* The operations asked for and the histories found at boot.                *)
(***************************************************************************)
Rec(key, val) == [key |-> key, val |-> val]

\* node 2 registered (s1, D1)
History1 ==
    <<Rec(schema_key(0, 2, "s1", 1),
          schema_value("s1", 1, "avro", 1, "D1", FALSE))>>

\* ... and soft-deleted the subject s1
History2 ==
    History1 \o
    <<Rec(delete_subject_key(1, 2, "s1"), delete_subject_value("s1", 1))>>

Histories == {<<>>, History1, History2}

WriterOps ==
    {write_subject_version("s1", "D1", "avro"),
     write_subject_version("s1", "D2", "avro"),
     write_config("s1", "FULL"),
     delete_subject_version("s1", 1),
     delete_subject_impermanent("s1")}

WriterMenu ==
    [p \in Procs |->
       CASE p = "a1" -> WriterOps
         [] p = "a2" -> {read_sync,
                         write_subject_version("s1", "D2", "avro"),
                         delete_subject_permanent("s1", NoVersion),
                         delete_subject_permanent("s1", 1)}
         [] p = "b1" -> {write_subject_version("s1", "D1", "avro"),
                         write_subject_version("s1", "D3", "avro")}]

\* advance_offset for every offset the topic may come to hold
AdvanceOps == {advance_offset(o) : o \in 0..(2 + MaxLog)}

\* Every kind of step: sequenced writes, read_sync, permanent deletes and
\* advance_offset.
Menu ==
    [p \in Procs |->
       CASE p = "a1" -> {write_subject_version("s1", "D2", "avro"),
                         write_config("s1", "FULL")}
         [] p = "a2" -> {read_sync,
                         delete_subject_permanent("s1", NoVersion),
                         delete_subject_permanent("s1", 1)} \cup AdvanceOps
         [] p = "b1" -> {write_subject_version("s1", "D3", "avro")}]

Init ==
    \E l \in Histories, fresh \in SUBSET Nodes :
       Booted(l, fresh, Menu, MaxOps)

Step(p) ==
    \/ Start(p)
    \/ Acquire(p)
    \/ ReadSync(p)
    \/ Fetch(p)
    \/ Project(p)
    \/ ProduceRecord(p)
    \/ ApplyWrite(p)
    \/ AdvanceReturn(p)
    \/ PermQuery(p)
    \/ PermProduce(p)
    \/ PermApply(p)

Next == \E p \in Procs : Step(p) \/ AdvanceOffset(p)

Spec == Init /\ [][Next]_vars

\* The writers alone: no advance_offset from outside.
NextWriter == \E p \in Procs : Step(p)

\* Sequenced writes and read_sync alone: no permanent delete either.
SyncMenu ==
    [p \in Procs |->
       {o \in WriterMenu[p] : o.name # "delete_subject_permanent"}]

InitSync ==
    \E l \in Histories, fresh \in SUBSET Nodes :
       Booted(l, fresh, SyncMenu, MaxOps)

NextSync ==
    \E p \in Procs :
       \/ Start(p)
       \/ Acquire(p)
       \/ ReadSync(p)
       \/ Fetch(p)
       \/ Project(p)
       \/ ProduceRecord(p)
       \/ ApplyWrite(p)
       \/ AdvanceReturn(p)

SpecSync == InitSync /\ [][NextSync]_vars

\* Two nodes register the same (subject, definition, type).
RegisterMenu ==
    [p \in Procs |->
       IF p \in {"a1", "b1"}
       THEN {write_subject_version("s1", "D2", "avro")} ELSE {}]

InitRegister ==
    \E l \in Histories, fresh \in SUBSET Nodes :
       Booted(l, fresh, RegisterMenu, 2)

SpecRegister == InitRegister /\ [][NextSync]_vars

\* Node 1 registers and deletes permanently while node 2 registers; no
\* read_sync is asked for.
DeleteMenu ==
    [p \in Procs |->
       CASE p = "a1" -> {write_subject_version("s1", "D2", "avro")}
         [] p = "a2" -> {delete_subject_permanent("s1", NoVersion),
                         delete_subject_permanent("s1", 1)}
         [] p = "b1" -> {write_subject_version("s1", "D3", "avro")}]

InitDelete ==
    \E l \in Histories, fresh \in SUBSET Nodes :
       Booted(l, fresh, DeleteMenu, MaxOps)

SpecDelete == InitDelete /\ [][NextWriter]_vars

\* A collision: one handler of node 1 runs one of the four sequenced writes
\* on s1 while node 2 writes a compatibility level, of another subject or the
\* very level node 1 asks for.
CollideMenu ==
    [p \in Procs |->
       CASE p = "a1" -> {write_subject_version("s1", "D2", "avro"),
                         write_config("s1", "FULL"),
                         delete_subject_version("s1", 1),
                         delete_subject_impermanent("s1")}
         [] p = "a2" -> {}
         [] p = "b1" -> {write_config("s2", "FULL"),
                         write_config("s1", "FULL")}]

InitCollide ==
    \E l \in Histories, fresh \in SUBSET Nodes :
       Booted(l, fresh, CollideMenu, 2)

\* Sequenced writes, read_sync and permanent deletes: no advance_offset from
\* outside.
ReadDeleteMenu ==
    [p \in Procs |-> {o \in Menu[p] : o.name # "advance_offset"}]

InitReadDelete ==
    \E l \in Histories, fresh \in SUBSET Nodes :
       Booted(l, fresh, ReadDeleteMenu, MaxOps)

SpecReadDelete == InitReadDelete /\ [][NextWriter]_vars

\* The life of a subject: node 1 registers s1, sets its level, soft-deletes
\* it, and deletes it permanently from another handler, while node 2
\* registers a schema of its own for s1.
ScenarioMenu ==
    [p \in Procs |->
       CASE p = "a1" -> {write_subject_version("s1", "D2", "avro"),
                         write_config("s1", "FULL"),
                         delete_subject_impermanent("s1")}
         [] p = "a2" -> {delete_subject_permanent("s1", NoVersion)}
         [] p = "b1" -> {write_subject_version("s1", "D3", "avro")}]

\* Four operations, and room for the three records of the scenario and
\* their tombstones.
InitScenario ==
    \E l \in Histories, fresh \in SUBSET Nodes :
       BootedWith(l, fresh, ScenarioMenu, 4, 6)

SpecScenario == InitScenario /\ [][NextWriter]_vars

\* The log client may fail: produce_record_batch and list_offsets answer
\* with an error at any call.
NextFaulty ==
    \E p \in Procs :
       \/ Step(p)
       \/ ProduceError(p)
       \/ PermProduceError(p)
       \/ ReadSyncError(p)

SpecFaulty == InitReadDelete /\ [][NextFaulty]_vars

\* Compatibility levels: two handlers of node 1 set the level of s1 or the
\* global level, node 2 sets another level for s1.
ConfigMenu ==
    [p \in Procs |->
       IF p = "b1" THEN {write_config("s1", "NONE")}
       ELSE {write_config("s1", "FULL"),
             write_config(NoSubject, "FULL"),
             write_config(NoSubject, DefaultCompat)}]

InitConfig ==
    \E l \in Histories, fresh \in SUBSET Nodes :
       Booted(l, fresh, ConfigMenu, MaxOps)

SpecConfig == InitConfig /\ [][NextSync]_vars

SpecCollide == InitCollide /\ [][NextSync]_vars

\* Exhaustion: node 1 registers while node 2 keeps writing compatibility
\* levels, one record for each attempt of node 1.
ExhaustMenu ==
    [p \in Procs |->
       CASE p = "a1" -> {write_subject_version("s1", "D2", "avro")}
         [] p = "a2" -> {}
         [] p = "b1" -> {write_config("s2", "FULL"),
                         write_config("s2", "NONE")}]

\* One operation of node 1 and one of node 2 for each attempt the budget
\* allows; room for every record they can produce.
InitExhaust ==
    \E fresh \in SUBSET Nodes :
       BootedWith(<<>>, fresh, ExhaustMenu, max_retries + 1,
                  2 * (max_retries + 1))

SpecExhaust == InitExhaust /\ [][NextSync]_vars

(***************************************************************************)
(* Properties.                                                              *)
(***************************************************************************)
\* p's sequenced write returns success for a record it produced.
ReturnsWrite(p) == pc[p] = "advance" /\ pc'[p] = "done"

\* C1: no step of any writer, catch-up, permanent delete or advance_offset
\* makes _loaded_offset of a node smaller.
C1_LoadedOffsetMonotonic ==
    [][\A n \in Nodes : loaded_offset'[n] >= loaded_offset[n]]_vars

\* An advance_offset for an offset below _loaded_offset has run and was ignored.
C1_Witness ==
    \E p \in Procs :
       /\ pc[p] = "done"
       /\ op[p].name = "advance_offset"
       /\ op[p].offset < loaded_offset[NodeOf(p)]

\* C2 as stated: when a sequenced write returns success for the record it
\* produced, _loaded_offset equals the offset of that record.
C2_LoadedOffsetEqualsWriteAt ==
    [][\A p \in Procs :
         ReturnsWrite(p) => loaded_offset'[NodeOf(p)] = ret'[p].at]_vars

\* C2, amended: when a sequenced write returns success for the record it
\* produced, _loaded_offset is at least the offset of that record.
C2_LoadedOffsetAtLeastWriteAt ==
    [][\A p \in Procs :
         ReturnsWrite(p) => loaded_offset'[NodeOf(p)] >= ret'[p].at]_vars

\* A sequenced write is about to return for the record it produced and
\* applied, while a catch-up has moved _loaded_offset past that record.
C2_Witness ==
    \E p \in Procs :
       /\ pc[p] = "advance"
       /\ loaded_offset[NodeOf(p)] > loc[p].write_at

\* The store shows the effect of the record (key, val) of a sequenced write.
Visible(st, key, val) ==
    CASE val.kind = "schema_value" ->
            /\ HasVersion(st, key.sub, key.version)
            /\ VersionEntry(st, key.sub, key.version) =
                  [version |-> val.version, id |-> val.id,
                   deleted |-> val.deleted]
            /\ [id |-> val.id, def |-> val.def, type |-> val.type]
                  \in st.schemas
      [] val.kind = "config_value" ->
            st.compat[IF key.sub = NoSubject THEN Global ELSE key.sub]
               = val.compat
      [] val.kind = "delete_subject_value" ->
            st.subjects[key.sub].deleted

\* C3: when a sequenced write returns success for the record it built, the
\* record is in the topic at the offset it was written at and the store of
\* its node shows the record's effect.
C3_DurableAndVisibleAtReturn ==
    [][\A p \in Procs :
         ReturnsWrite(p) =>
            /\ ret'[p].at < Len(log')
            /\ RecordAt(log', ret'[p].at) = Rec(ret'[p].key, ret'[p].val)
            /\ Visible(store'[NodeOf(p)], ret'[p].key, ret'[p].val)]_vars

\* The length of the history found at boot.
InitialLen == log_limit - MaxLog

VersionNumbers(st, sub) ==
    [i \in 1..Len(st.subjects[sub].versions) |->
       st.subjects[sub].versions[i].version]

\* The offsets, past the history found at boot, of the records that landed
\* where their writer expected them.
InPlace ==
    {o \in InitialLen..(Len(log) - 1) : RecordAt(log, o).key.seq = o}

\* The request handlers of node 1 and of node 2 have both returned.
BothRegistered == pc["a1"] = "done" /\ pc["b1"] = "done"

\* C4 as stated: when two nodes have registered the same (subject,
\* definition, type), both succeeded with the same schema ID, exactly one
\* record was written and, on a topic empty before, the versions are [1].
C4_OneRecordWritten ==
    BothRegistered =>
       /\ ret["a1"].status = "ok" /\ ret["b1"].status = "ok"
       /\ ret["a1"].value.id = ret["b1"].value.id
       /\ Len(log) = InitialLen + 1
       /\ InitialLen = 0 =>
             \A n \in Nodes : VersionNumbers(store[n], "s1") = <<1>>

\* C4, amended: both succeeded with the same schema ID; one or two records
\* were written, exactly one of them where its writer expected it; both
\* stores hold exactly one version with that ID and, on a topic empty
\* before, the versions are [1].
C4_OneRecordInPlace ==
    BothRegistered =>
       /\ ret["a1"].status = "ok" /\ ret["b1"].status = "ok"
       /\ ret["a1"].value.id = ret["b1"].value.id
       /\ Len(log) - InitialLen \in {1, 2}
       /\ Cardinality(InPlace) = 1
       /\ \A n \in Nodes :
             Cardinality({i \in 1..Len(store[n].subjects["s1"].versions) :
                store[n].subjects["s1"].versions[i].id = ret["a1"].value.id})
             = 1
       /\ InitialLen = 0 =>
             \A n \in Nodes : VersionNumbers(store[n], "s1") = <<1>>

\* Both have returned after a collision: two records were written.
C4_Witness == BothRegistered /\ Len(log) = InitialLen + 2

\* C5: no two stores, and no store in itself, map a schema ID to two
\* definitions.
C5_OneDefinitionPerId ==
    \A n \in Nodes, m \in Nodes :
       \A s \in store[n].schemas, t \in store[m].schemas :
          s.id = t.id => s.def = t.def /\ s.type = t.type

InFlight(p) ==
    \/ Sequenced(p) /\ pc[p] \in {"produce", "apply"}
    \/ pc[p] \in {"perm_produce", "perm_apply"}

\* C7: on a node, at most one mutation (sequenced write or permanent delete)
\* is in flight.
C7_OneMutationInFlight ==
    \A n \in Nodes :
       Cardinality({p \in Procs : NodeOf(p) = n /\ InFlight(p)}) <= 1

\* C8: on a node, at most one wait_for is in its fetch.
C8_OneWaitForInFlight ==
    \A n \in Nodes :
       Cardinality({p \in Procs : NodeOf(p) = n /\ InWaitFor(p)}) <= 1

\* C9: the offsets a node's applier is called with are strictly increasing.
C9_AppliedStrictlyIncreasing ==
    \A n \in Nodes :
       \A i \in 1..Len(applied[n]), j \in 1..Len(applied[n]) :
          i < j => applied[n][i] < applied[n][j]

\* No request handler of node n is inside an operation.
Quiescent(n) ==
    \A p \in Procs : NodeOf(p) = n => pc[p] \in {"idle", "done"}

\* C10: while a node has no operation in progress, its store is the replay
\* of the topic from offset 0 through its _loaded_offset.
C10_StoreIsReplay ==
    \A n \in Nodes :
       Quiescent(n) => store[n] = Replay(log, loaded_offset[n])

\* The offsets at which node n's records landed elsewhere than their key
\* says: the attempts of n that collided.
Misplaced(n) ==
    {o \in 0..(Len(log) - 1) :
        RecordAt(log, o).key.node = n /\ RecordAt(log, o).key.seq # o}

\* a1 and b1 ran one operation each; a1's collided once and has returned.
CollidedOnce ==
    /\ ops_left = 0
    /\ op["a1"] # NoOp
    /\ op["b1"] # NoOp
    /\ pc["a1"] = "done"
    /\ Cardinality(Misplaced(1)) = 1

\* What the closure of a1's operation yields on the store as it is after
\* offset o, the next offset being its write_at.
SingleAttempt(o) == do_write(Replay(log, o), op["a1"], o + 1, 1)

\* C11, as stated: a sequenced write of node 1 that collided once returns
\* the value that its first attempt would have returned had it succeeded.
C11_ValueOfFirstAttempt ==
    CollidedOnce =>
       /\ ret["a1"].status = "ok"
       /\ ret["a1"].value = SingleAttempt(InitialLen - 1).value

\* C11, amended: a sequenced write of node 1 that collided once returns
\* success, the record it reports (if any) lies in the log at the offset of
\* its key, and the value returned is the value a single attempt yields on
\* the store as caught up after the collision.
C11_ValueOfAttemptAfterCollision ==
    CollidedOnce =>
       /\ ret["a1"].status = "ok"
       /\ ret["a1"].wrote =>
             /\ ret["a1"].at < Len(log)
             /\ RecordAt(log, ret["a1"].at)
                   = [key |-> ret["a1"].key, val |-> ret["a1"].val]
             /\ ret["a1"].key.seq = ret["a1"].at
       /\ ret["a1"].value
            = SingleAttempt(IF ret["a1"].wrote THEN ret["a1"].at - 1
                            ELSE loaded_offset[1]).value

\* a1 collided once and wrote its record at the second attempt
C11_Witness ==
    /\ CollidedOnce
    /\ ret["a1"].wrote
    /\ op["a1"].name = "delete_subject_impermanent"

\* p's produce has landed at another offset than write_at.
Collides(p) ==
    /\ pc[p] = "produce"
    /\ Len(log') = Len(log) + 1
    /\ log'[Len(log')].key = loc[p].key
    /\ Len(log) # loc[p].write_at

TwoSameConfigs ==
    /\ ops_left = MaxOps - 2
    /\ op["a1"].name = "write_config"
    /\ op["a2"] = op["a1"]
    /\ op["b1"] = NoOp
    /\ pc["a1"] = "done"
    /\ pc["a2"] = "done"

\* The handlers among a1 and a2 whose operation produced a record.
Writers == {p \in {"a1", "a2"} : ret[p].wrote}

\* after two equal write_config: at most one record, written by the call
\* that returned true, and none if the level was the requested one already
OneConfigRecord ==
    TwoSameConfigs =>
       /\ \A p \in {"a1", "a2"} :
             /\ ret[p].status = "ok"
             /\ ret[p].value = FlagValue(ret[p].wrote)
       /\ Cardinality(Writers) <= 1
       /\ Len(log) = InitialLen + Cardinality(Writers)
       /\ Writers = {} <=>
            get_compatibility(Replay(log, InitialLen - 1), op["a1"].sub)
               = op["a1"].compat

Registered(st, sub, def, type) ==
    \E s \in st.schemas :
       /\ s.def = def
       /\ s.type = type
       /\ \E i \in 1..Len(st.subjects[sub].versions) :
             st.subjects[sub].versions[i].id = s.id

\* The two handlers of node 1 have each run the same registration to its
\* end, one after the other under the write permit, and nothing else was
\* started.
TwoSameRegistrations ==
    /\ ops_left = MaxOps - 2
    /\ op["a1"].name = "write_subject_version"
    /\ op["a2"] = op["a1"]
    /\ op["b1"] = NoOp
    /\ pc["a1"] = "done"
    /\ pc["a2"] = "done"

\* after two equal registrations: the same ID twice and at most one record
SameIdOneRecord ==
    TwoSameRegistrations =>
       /\ ret["a1"].status = "ok"
       /\ ret["a2"].status = "ok"
       /\ ret["a1"].value = ret["a2"].value
       /\ Cardinality(Writers) <= 1
       /\ Len(log) = InitialLen + Cardinality(Writers)

\* C14: a registration whose (subject, definition, type) the store holds
\* returns the ID the store holds for it, produces no record and leaves the
\* log, the store and _loaded_offset as they are; two equal registrations in
\* a row return the same ID and produce at most one record.
C14_RegistrationIdempotent ==
    [][/\ \A p \in Procs :
             (/\ pc[p] = "project"
              /\ pc'[p] # "project"
              /\ op[p].name = "write_subject_version"
              /\ Registered(store[NodeOf(p)], op[p].sub, op[p].def,
                            op[p].type))
             => /\ pc'[p] = "done"
                /\ ret'[p].status = "ok"
                /\ ~ret'[p].wrote
                /\ \E s \in store[NodeOf(p)].schemas :
                      /\ s.def = op[p].def
                      /\ s.type = op[p].type
                      /\ ret'[p].value = IdValue(s.id)
                /\ log' = log
                /\ store' = store
                /\ loaded_offset' = loaded_offset
       /\ SameIdOneRecord']_vars

\* the first registration wrote its record, the second returned its ID
C14_Witness ==
    /\ TwoSameRegistrations
    /\ ret["a1"].wrote
    /\ ret["a2"] = Returned(ret["a1"].value)

\* r is the failure of a log operation that answered with an error code.
backend_error(r) == r.status = "error" /\ r.err \in ErrorCodes

\* p leaves its produce and the log has not grown: the response carried an
\* error code.
ProduceFails(p) ==
    /\ pc[p] \in {"produce", "perm_produce"}
    /\ pc'[p] # pc[p]
    /\ log' = log

\* C15: a produce that answers with an error code ends the operation, a
\* sequenced write or a permanent delete, with backend_error: no retry, no
\* change of the store or of _loaded_offset.
C15_ProduceErrorFails ==
    [][\A p \in Procs :
          ProduceFails(p) =>
             /\ pc'[p] = "done"
             /\ backend_error(ret'[p])
             /\ store' = store
             /\ applied' = applied
             /\ loaded_offset' = loaded_offset]_vars

\* a sequenced write and a permanent delete of node 1 have both failed on
\* their produce
C15_Witness ==
    /\ pc["a1"] = "done"
    /\ backend_error(ret["a1"])
    /\ pc["a2"] = "done"
    /\ op["a2"].name = "delete_subject_permanent"
    /\ backend_error(ret["a2"])

\* p's read_sync throws on the response of list_offsets.
ReadSyncFails(p) ==
    /\ pc[p] = "read_sync"
    /\ pc'[p] = "done"
    /\ ret'[p].status = "error"

\* p's read_sync goes on as wait_for(end offset - 1) does: the fetch of the
\* records it lacks, or its return when it lacks none.
CallsWaitFor(p) ==
    IF Len(log) - 1 > loaded_offset[NodeOf(p)]
    THEN /\ pc'[p] = "fetch"
         /\ loc'[p].next = loaded_offset[NodeOf(p)] + 1
         /\ loc'[p].end = Len(log)
    ELSE /\ pc'[p] = IF Sequenced(p) THEN "project" ELSE "done"
         /\ ret'[p].status # "error"

\* Nothing but p's own position and result changes.
NothingApplied ==
    /\ log' = log
    /\ store' = store
    /\ applied' = applied
    /\ loaded_offset' = loaded_offset

\* C16, as stated: read_sync either fails with backend_error, without
\* wait_for and without a change of the store or of _loaded_offset, or calls
\* wait_for(end offset - 1).
C16_ReadSyncFailsWithBackendError ==
    [][\A p \in Procs :
          (pc[p] = "read_sync" /\ pc'[p] # "read_sync") =>
             \/ /\ ReadSyncFails(p)
                /\ backend_error(ret'[p])
                /\ NothingApplied
             \/ /\ ~ReadSyncFails(p)
                /\ CallsWaitFor(p)]_vars

\* C16, amended: read_sync either fails, with unknown_topic_or_partition for
\* a response without one topic and one partition and with backend_error for
\* an error code of the partition, without wait_for and without a change of
\* the store or of _loaded_offset, or calls wait_for(end offset - 1).
C16_ReadSyncFailsWithItsErrorCode ==
    [][\A p \in Procs :
          (pc[p] = "read_sync" /\ pc'[p] # "read_sync") =>
             \/ /\ ReadSyncFails(p)
                /\ \/ backend_error(ret'[p])
                   \/ ret'[p].err = "unknown_topic_or_partition"
                /\ NothingApplied
             \/ /\ ~ReadSyncFails(p)
                /\ CallsWaitFor(p)]_vars

\* a read_sync of node 1 failed for the shape of the response, another for
\* the error code of the partition, while records were waiting to be fetched
C16_Witness ==
    /\ op["a2"] = read_sync
    /\ pc["a2"] = "done"
    /\ ret["a2"].err = "unknown_topic_or_partition"
    /\ pc["a1"] = "done"
    /\ backend_error(ret["a1"])
    /\ ~ret["a1"].wrote
    /\ Len(log) - 1 > loaded_offset[1]

\* The offsets whose records the applier of node n was handed.
AppliedOffsets(n) == {applied[n][i] : i \in 1..Len(applied[n])}

\* C20: every record at an offset up to _loaded_offset has been applied to
\* the store of its node.
C20_LoadedRecordsApplied ==
    \A n \in Nodes :
       \A o \in 0..loaded_offset[n] : o \in AppliedOffsets(n)

\* p's read_sync returns successfully.
ReadSyncReturns(p) ==
    /\ op[p] = read_sync
    /\ pc[p] \in {"read_sync", "fetch"}
    /\ pc'[p] = "done"
    /\ ret'[p].status = "ok"

\* The end offset list_offsets reported to p's read_sync.
EndOffset(p) == IF pc[p] = "fetch" THEN loc[p].end ELSE Len(log)

\* C17: when read_sync returns successfully, every record below the end
\* offset that list_offsets reported has been applied to the store of its
\* node.
C17_ReadSyncAppliesAll ==
    [][\A p \in Procs :
          ReadSyncReturns(p) =>
             \A o \in 0..(EndOffset(p) - 1) : o \in AppliedOffsets(NodeOf(p))']_vars

\* The store holds nothing of the victim of the permanent delete o: no record
\* of the subject, or no such version of it.
Unknown(st, o) ==
    IF o.version = NoVersion THEN st.subjects[o.sub] = EmptySubject
    ELSE ~HasVersion(st, o.sub, o.version)

\* C19: a permanent delete whose victim the store does not know fails with
\* not_found, produces no record and leaves the store and _loaded_offset as
\* they are; the batch of a permanent delete is never empty.
C19_UnknownVictimNotFound ==
    [][\A p \in Procs :
          (pc[p] = "perm_query" /\ pc'[p] # "perm_query") =>
             /\ Unknown(store[NodeOf(p)], op[p]) =>
                   /\ pc'[p] = "done"
                   /\ ret'[p] = Thrown("not_found")
                   /\ NothingApplied
             /\ pc'[p] = "perm_produce" => loc'[p].keys # <<>>
             /\ ret'[p].err # "assert"]_vars

\* a permanent delete of a version failed with not_found after an earlier
\* one had removed that version
C19_Witness ==
    /\ pc["a2"] = "done"
    /\ op["a2"] = delete_subject_permanent("s1", 1)
    /\ ret["a2"] = Thrown("not_found")
    /\ store[1].subjects["s1"] # EmptySubject
    /\ ~HasVersion(store[1], "s1", 1)

\* p's permanent delete of a whole subject returns successfully.
SubjectDeleted(p) ==
    /\ pc[p] = "perm_apply"
    /\ pc'[p] = "done"
    /\ op[p].version = NoVersion
    /\ ret'[p].status = "ok"

\* Nothing of sub is left in the store st: no version, no soft-delete
\* marker, no compatibility level of its own.
Absent(st, sub) ==
    /\ st.subjects[sub] = EmptySubject
    /\ st.compat[sub] = Unset

\* C18: when delete_subject_permanent(s, none) returns successfully, the
\* replay of the topic from offset 0 yields a store in which s does not
\* appear.
C18_ReplayWithoutSubject ==
    [][\A p \in Procs :
          SubjectDeleted(p) =>
             Absent(Replay(log', Len(log') - 1), op[p].sub)]_vars

\* The offsets of l that hold a value (no tombstone) for sub at the offset
\* its key names: the records of sub a replay takes up.
ValueRecords(l, sub) ==
    {o \in 0..(Len(l) - 1) :
        /\ RecordAt(l, o).val # Tombstone
        /\ RecordAt(l, o).key.sub = sub
        /\ RecordAt(l, o).key.seq = o}

\* The keys of the count tombstones that landed from offset at on.
BatchKeys(l, at, count) == {RecordAt(l, o).key : o \in at..(at + count - 1)}

\* The topic holds the scenario: a registration, a compatibility level and a
\* soft-delete of sub, in this order, and after them tombstones alone.
ScenarioHistory(l, sub) ==
    /\ Len(l) >= 3
    /\ ValueRecords(l, sub) = {0, 1, 2}
    /\ \A o \in 3..(Len(l) - 1) : RecordAt(l, o).val = Tombstone
    /\ RecordAt(l, 0).val.kind = "schema_value"
    /\ RecordAt(l, 1).val.kind = "config_value"
    /\ RecordAt(l, 2).val.kind = "delete_subject_value"

\* C18, amended: when delete_subject_permanent(s, none) returns
\* successfully, the replay of the topic from offset 0 yields a store in
\* which s does not appear unless the topic holds a record of s that is not
\* among those the delete tombstoned; after the scenario's history the log
\* ends with exactly three tombstones.
C18_ReplayWithoutTombstoned ==
    [][\A p \in Procs :
          SubjectDeleted(p) =>
             LET keys == BatchKeys(log', ret'[p].at, ret'[p].count)
             IN /\ (\A o \in ValueRecords(log', op[p].sub) :
                       RecordAt(log', o).key \in keys)
                   => Absent(Replay(log', Len(log') - 1), op[p].sub)
                /\ ScenarioHistory(log', op[p].sub) =>
                      /\ Len(log') = 6
                      /\ ret'[p].at = 3
                      /\ ret'[p].count = 3
                      /\ BatchKeys(log', 3, 3)
                           = {RecordAt(log', o).key : o \in 0..2}]_vars

\* the scenario has run on node 1: three records, three tombstones, and a
\* replay without s1
C18_Witness ==
    /\ pc["a2"] = "done"
    /\ ret["a2"].status = "ok"
    /\ ret["a2"].count = 3
    /\ ScenarioHistory(log, "s1")
    /\ RecordAt(log, 0).key.node = 1
    /\ Len(log) = 6
    /\ Absent(Replay(log, 5), "s1")

\* C21: the record of a sequenced write carries key.seq = write_at and the
\* id of its node; the produce itself changes neither the store nor
\* _loaded_offset; the write goes on to apply its record at write_at and to
\* advance _loaded_offset only when the record landed at write_at, and on a
\* mismatch it goes back to its catch-up (or fails, its budget spent)
\* without having applied anything.
C21_AppliedOnlyInPlace ==
    [][\A p \in Procs :
          /\ (pc[p] = "produce" /\ Len(log') = Len(log) + 1
              /\ log'[Len(log')].key = loc[p].key)
             => /\ loc[p].key.seq = loc[p].write_at
                /\ loc[p].key.node = NodeOf(p)
                /\ store' = store
                /\ applied' = applied
                /\ loaded_offset' = loaded_offset
                /\ IF Len(log) = loc[p].write_at
                   THEN pc'[p] = "apply"
                   ELSE /\ pc'[p] \in {"read_sync", "done"}
                        /\ pc'[p] = "done" => ret'[p].status = "error"
          /\ pc'[p] \in {"apply", "advance"}
             => /\ loc'[p].write_at < Len(log')
                /\ RecordAt(log', loc'[p].write_at)
                     = [key |-> loc'[p].key, val |-> loc'[p].val]
          /\ (pc[p] = "apply" /\ pc'[p] = "advance")
             => /\ store'[NodeOf(p)]
                     = apply(store[NodeOf(p)], loc[p].write_at, loc[p].key,
                             loc[p].val)
                /\ applied'[NodeOf(p)]
                     = Append(applied[NodeOf(p)], loc[p].write_at)
          /\ (pc[p] = "advance" /\ pc'[p] = "done")
             => loaded_offset'[NodeOf(p)] >= loc[p].write_at]_vars

\* a write of node 1 missed its offset once and has applied the record of
\* its second attempt
C21_Witness ==
    /\ pc["a1"] = "advance"
    /\ loc["a1"].retries = 1
    /\ Misplaced(1) # {}
    /\ loc["a1"].write_at \in AppliedOffsets(1)

\* C22: wait_for(o) with o <= _loaded_offset fetches nothing and changes
\* nothing; else it fetches the range [_loaded_offset + 1, o + 1), one record
\* after the other, each handed to the applier at its offset, and when it
\* completes _loaded_offset >= o.
C22_WaitForFetchesRange ==
    [][\A p \in Procs :
          LET n == NodeOf(p)
          IN /\ (pc[p] = "read_sync" /\ pc'[p] # "read_sync")
                => IF Len(log) - 1 <= loaded_offset[n]
                   THEN /\ pc'[p] # "fetch"
                        /\ NothingApplied
                   ELSE /\ pc'[p] = "fetch"
                        /\ loc'[p].next = loaded_offset[n] + 1
                        /\ loc'[p].end = Len(log)
                        /\ NothingApplied
             /\ (pc[p] = "fetch" /\ <<pc[p], loc[p]>> # <<pc'[p], loc'[p]>>)
                => /\ loc[p].next < loc[p].end
                   /\ applied'[n] = Append(applied[n], loc[p].next)
                   /\ store'[n] = apply(store[n], loc[p].next,
                                        RecordAt(log, loc[p].next).key,
                                        RecordAt(log, loc[p].next).val)
                   /\ IF loc[p].next + 1 < loc[p].end
                      THEN /\ pc'[p] = "fetch"
                           /\ loc'[p].next = loc[p].next + 1
                           /\ loc'[p].end = loc[p].end
                      ELSE /\ pc'[p] # "fetch"
                           /\ loaded_offset'[n] >= loc[p].end - 1]_vars

\* a read_sync of a fresh node 1 has fetched the two records of the topic
C22_Witness ==
    /\ op["a2"] = read_sync
    /\ pc["a2"] = "done"
    /\ ret["a2"].status = "ok"
    /\ applied[1] = <<0, 1>>
    /\ loaded_offset[1] = 1

\* C23: a permanent delete builds one tombstone for each sequence marker the
\* store returns, with the marker's seq, node and key type, which are those
\* of the record it erases; it produces them as one batch and goes on to
\* its replay wherever the batch landed.
C23_OneTombstonePerMarker ==
    [][\A p \in Procs :
          LET n == NodeOf(p)
              sequences == Sequences(store[n], op[p])
          IN /\ (pc[p] = "perm_query" /\ pc'[p] = "perm_produce")
                => /\ sequences.ok
                   /\ Len(loc'[p].keys) = Len(sequences.val)
                   /\ \A i \in 1..Len(sequences.val) :
                         LET k == loc'[p].keys[i]
                             m == sequences.val[i]
                         IN /\ k.seq = m.seq
                            /\ k.node = m.node
                            /\ k.type = m.key_type
                            /\ k.sub = op[p].sub
                            /\ k.seq < Len(log)
                            /\ RecordAt(log, k.seq).key = k
                            /\ RecordAt(log, k.seq).val # Tombstone
             /\ (pc[p] = "perm_produce" /\ pc'[p] # "perm_produce")
                => /\ log' = log \o [i \in 1..Len(loc[p].keys) |->
                                       [key |-> loc[p].keys[i],
                                        val |-> Tombstone]]
                   /\ pc'[p] = "perm_apply"
                   /\ loc'[p].offset = Len(log)
             /\ pc[p] = "perm_apply" => pc'[p] \in {"perm_apply", "done"}]_vars

\* node 1 has deleted s1 permanently: two tombstones, keyed with the seq and
\* the node of the records node 2 wrote at offsets 0 and 1, landed later
C23_Witness ==
    /\ pc["a2"] = "done"
    /\ op["a2"] = delete_subject_permanent("s1", NoVersion)
    /\ ret["a2"].status = "ok"
    /\ ret["a2"].count = 2
    /\ ret["a2"].at >= 2
    /\ BatchKeys(log, ret["a2"].at, 2)
         = {schema_key(0, 2, "s1", 1), delete_subject_key(1, 2, "s1")}

\* C24: each step of a permanent delete's replay applies the next tombstone of
\* the batch to the node's store at the next offset of the batch, starting at
\* the base offset b and in the order of the markers; when the delete returns,
\* the offsets b, ..., b+n-1 have all been applied and _loaded_offset is at
\* least b+n-1.
C24_TombstonesAppliedInPlace ==
    [][\A p \in Procs :
          LET n == NodeOf(p)
              offset == loc[p].offset
              keys == loc[p].keys
              count == loc[p].end
              b == offset - (count - Len(keys))
          IN (pc[p] = "perm_apply" /\ loc'[p] # loc[p])
             => /\ b + count <= Len(log)
                /\ RecordAt(log, offset) = [key |-> Head(keys), val |-> Tombstone]
                /\ store'[n] = apply(store[n], offset, Head(keys), Tombstone)
                /\ applied'[n] = Append(applied[n], offset)
                /\ loaded_offset'[n] >= offset
                /\ IF pc'[p] = "perm_apply"
                   THEN /\ loc'[p].offset = offset + 1
                        /\ loc'[p].keys = Tail(keys)
                        /\ loc'[p].end = count
                   ELSE /\ pc'[p] = "done"
                        /\ ret'[p].status = "ok"
                        /\ ret'[p].at = b
                        /\ ret'[p].count = count
                        /\ offset = b + count - 1
                        /\ loaded_offset'[n] >= b + count - 1
                        /\ \A i \in 0..(count - 1) :
                              /\ b + i \in AppliedOffsets(n)'
                              /\ RecordAt(log, b + i).val = Tombstone]_vars

\* node 1 has deleted s1 permanently, the batch of two tombstones landed at
\* offset 2: offsets 2 and 3 were applied in that order and _loaded_offset is 3
C24_Witness ==
    /\ pc["a2"] = "done"
    /\ op["a2"].name = "delete_subject_permanent"
    /\ ret["a2"].status = "ok"
    /\ ret["a2"].at = 2
    /\ ret["a2"].count = 2
    /\ applied[1] = <<0, 1, 2, 3>>
    /\ loaded_offset[1] = 3

\* C25: the closure of delete_subject_impermanent, run on a subject the store
\* flags as soft-deleted, returns the numbers of all the subject's versions,
\* the deleted ones too, and produces nothing: the log, the store and
\* _loaded_offset stay as they are.  Run on a live subject it produces one
\* delete_subject record, whose version is the highest version of the
\* subject, and on success returns the same list.
C25_DeleteSubjectIdempotent ==
    [][\A p \in Procs :
          LET n == NodeOf(p)
              sub == op[p].sub
              all == VersionNumbers(store[n], sub)
              highest == SetMax({all[i] : i \in 1..Len(all)})
          IN op[p].name = "delete_subject_impermanent" =>
             /\ (pc[p] = "project" /\ pc'[p] # "project" /\ all # <<>>)
                => IF store[n].subjects[sub].deleted
                   THEN /\ pc'[p] = "done"
                        /\ ret'[p] = Returned(VersionsValue(all))
                        /\ NothingApplied
                   ELSE /\ pc'[p] = "produce"
                        /\ loc'[p].key
                             = delete_subject_key(loc[p].write_at, n, sub)
                        /\ loc'[p].val = delete_subject_value(sub, highest)
                        /\ loc'[p].value = VersionsValue(all)
                        /\ NothingApplied
             /\ (pc[p] = "produce" /\ pc'[p] # "produce")
                => log' = Append(log, [key |-> loc[p].key, val |-> loc[p].val])
             /\ (pc[p] = "advance" /\ pc'[p] = "done")
                => /\ ret'[p].value = loc[p].value
                   /\ ret'[p].val.version
                        = SetMax({ret'[p].value.versions[i] :
                                    i \in 1..Len(ret'[p].value.versions)})]_vars

\* node 1 soft-deleted s1, its record is in the log in place, and a second
\* call has returned the versions without writing
C25_Witness ==
    /\ pc["a1"] = "done"
    /\ op["a1"] = delete_subject_impermanent("s1")
    /\ ret["a1"] = Returned(VersionsValue(<<1>>))
    /\ store[1].subjects["s1"].deleted
    /\ store[1].subjects["s1"].versions[1].deleted
    /\ \E o \in 0..(Len(log) - 1) :
          /\ RecordAt(log, o).key = delete_subject_key(o, 1, "s1")
          /\ RecordAt(log, o).val = delete_subject_value("s1", 1)

\* C26: the closure of delete_subject_version, run on a version the store
\* holds, builds a record with the version's id, type and definition and
\* deleted = true, also when the version is soft-deleted already, and
\* produces it; run on a version the store does not hold it fails with
\* not_found and nothing is produced.
C26_DeleteVersionAlwaysWrites ==
    [][\A p \in Procs :
          LET n == NodeOf(p)
              sub == op[p].sub
              version == op[p].version
          IN op[p].name = "delete_subject_version" =>
             /\ (pc[p] = "project" /\ pc'[p] # "project")
                => IF HasVersion(store[n], sub, version)
                   THEN LET e == VersionEntry(store[n], sub, version)
                            s == SchemaOf(store[n], e.id)
                        IN /\ pc'[p] = "produce"
                           /\ loc'[p].key
                                = schema_key(loc[p].write_at, n, sub, version)
                           /\ loc'[p].val
                                = schema_value(sub, version, s.type, e.id,
                                               s.def, TRUE)
                           /\ NothingApplied
                   ELSE /\ pc'[p] = "done"
                        /\ ret'[p] = Thrown("not_found")
                        /\ NothingApplied
             /\ (pc[p] = "produce" /\ pc'[p] # "produce")
                => log' = Append(log, [key |-> loc[p].key, val |-> loc[p].val])]_vars

\* node 1 has soft-deleted version 1 of s1 twice: both records are in the log
\* where node 1 expected them, with the same id, type and definition
C26_Witness ==
    /\ pc["a1"] = "done"
    /\ op["a1"] = delete_subject_version("s1", 1)
    /\ ret["a1"].wrote
    /\ ret["a1"].val = schema_value("s1", 1, "avro", 1, "D1", TRUE)
    /\ RecordAt(log, ret["a1"].at)
         = [key |-> schema_key(ret["a1"].at, 1, "s1", 1), val |-> ret["a1"].val]
    /\ \E o \in 0..(ret["a1"].at - 1) :
          RecordAt(log, o) = [key |-> schema_key(o, 1, "s1", 1),
                              val |-> ret["a1"].val]

\* The record at offset o, where its writer expected it, registers the schema
\* that operation w registers.
RegistersAt(o, w) ==
    LET r == RecordAt(log, o)
    IN /\ r.key.seq = o
       /\ r.val.kind = "schema_value"
       /\ r.val.sub = w.sub /\ r.val.def = w.def /\ r.val.type = w.type
       /\ ~r.val.deleted

\* The record at offset d, where its writer expected it, soft-deletes the
\* version registered at offset o: that version alone or its whole subject.
SoftDeletesAt(d, o) ==
    LET r == RecordAt(log, d)
        v == RecordAt(log, o).val
    IN /\ r.key.seq = d
       /\ \/ /\ r.val.kind = "schema_value"
             /\ r.val.sub = v.sub /\ r.val.version = v.version
             /\ r.val.id = v.id /\ r.val.deleted
          \/ /\ r.val.kind = "delete_subject_value"
             /\ r.val.sub = v.sub /\ r.val.version >= v.version

\* C27: when a schema was registered with an ID and soft-deleted afterwards,
\* by delete_subject_version or by delete_subject_impermanent, a later
\* write_subject_version of the same subject, definition and type returns
\* that ID.  The soft delete is in the history found at boot or was written
\* by an earlier call of this same handler, so it precedes the call.
C27_ReRegisterReturnsOriginalId ==
    \A o \in 0..(Len(log) - 1), d \in 0..(Len(log) - 1) :
       ( /\ pc["a1"] = "done"
         /\ op["a1"].name = "write_subject_version"
         /\ ret["a1"].status = "ok"
         /\ o < d
         /\ RegistersAt(o, op["a1"])
         /\ SoftDeletesAt(d, o)
         /\ d < InitialLen \/ RecordAt(log, d).key.node = 1 )
       => ret["a1"].value.id = RecordAt(log, o).val.id

\* node 2 registered (s1, D1) with ID 1, node 1 soft-deleted that version and
\* has then registered (s1, D1) again
C27_Witness ==
    /\ pc["a1"] = "done"
    /\ op["a1"] = write_subject_version("s1", "D1", "avro")
    /\ ret["a1"].status = "ok"
    /\ ret["a1"].value.id = 1
    /\ RegistersAt(0, op["a1"])
    /\ RecordAt(log, 0).key.node = 2
    /\ Len(log) > 1
    /\ SoftDeletesAt(1, 0)
    /\ RecordAt(log, 1) = [key |-> schema_key(1, 1, "s1", 1),
                           val |-> schema_value("s1", 1, "avro", 1, "D1", TRUE)]

====
